---- MODULE Spec2Model ----
(***************************************************************************)
(* A model of axum-plus (src/src/lib.rs):                                  *)
(*   - StaticLayer / AddStatic / Static: a tower layer that inserts a      *)
(*     &'static T into every request's extensions, and the extractor that  *)
(*     reads it back;                                                      *)
(*   - Body<T>: the deserialize-then-validate JSON body extractor.         *)
(* The two components share no state; Spec is the injector, SpecBody the   *)
(* body extractor.                                                         *)
(***************************************************************************)
EXTENDS Integers, Sequences, FiniteSets, TLC

VARIABLES
    build,      \* how the crate was compiled: "test", "debug" or "release"
    phase,      \* "build" while the service stack is assembled, then "serve"
    svc,        \* the stack of AddStatic services, outermost first, around the handler
    statics,    \* the 'static values the layers refer to, by address
    rstate,     \* per request: "idle", "called", "panicked", "done"
    lastPoll,   \* per request: what the handler and the stack answered to poll_ready
    trace,      \* per request: the request as received by the service at each depth
    calls,      \* per request: how often the call of the service at each depth was invoked
    ext,        \* per request: its extensions map in the handler, key -> entry
    xlog,       \* per request: the extractions the handler has made, in order: the type,
                \* whether the map had its entry, the outcome, the error events logged
    resp,       \* per request: what the handler's future and the stack's future resolved to
    bstate,     \* per body request: "idle", "awaiting" (the body is being read), "done"
    breq,       \* per body request: the request handed to Body::from_request
    bres        \* per body request: what Body::from_request returned and what it called

ivars == <<build, phase, svc, statics, rstate, lastPoll, trace, calls, ext, xlog, resp>>
bvars == <<bstate, breq, bres>>
vars == <<build, phase, svc, statics, rstate, lastPoll, trace, calls, ext, xlog, resp,
          bstate, breq, bres>>

----------------------------------------------------------------------------
(* Bounds of the model. *)

NReq == 2           \* requests in flight at once
MaxLayers == 2      \* StaticLayers stacked around the handler
MaxExtract == 2     \* extractions on record at once, over the requests in flight

Reqs == 1..NReq

----------------------------------------------------------------------------
(* Status codes (create_status_code!). *)

BAD_REQUEST == 400
INTERNAL_SERVER_ERROR == 500

----------------------------------------------------------------------------
(* The 'static values and the type-keyed extensions map. *)

Types == {"Data", "B64"}
Builds == {"test", "debug", "release"}

\* The statics the layers are built around: two of one type, one of another.
StaticMemory ==
    (1 :> [ty |-> "Data", val |-> "West"]) @@
    (2 :> [ty |-> "Data", val |-> "East"]) @@
    (3 :> [ty |-> "B64",  val |-> "Standard"])

Addrs == DOMAIN StaticMemory

\* TypeId of Static<T>, the key AddStatic inserts under, and a key of some
\* other middleware's extension.
StaticKey(T) == <<"Static", T>>
OtherKey == <<"Ext", "Other">>
Keys == {StaticKey(T) : T \in Types} \cup {OtherKey}

NoEntry == [some |-> FALSE, ref |-> 0]
Entry(a) == [some |-> TRUE, ref |-> a]
OtherEntry == [some |-> TRUE, ref |-> 9]

EmptyExt == [k \in Keys |-> NoEntry]

\* The requests that reach the outermost service: the extensions, and the
\* rest (method, uri, headers, body). The extensions hold another
\* middleware's entry, alone or with a Static<Data> put there by Static::new
\* outside this stack.
InitialRequests ==
    { [extensions |-> [EmptyExt EXCEPT ![OtherKey] = OtherEntry],
       rest |-> "GET /"],
      [extensions |-> [EmptyExt EXCEPT ![OtherKey] = OtherEntry,
                                       ![StaticKey("Data")] = Entry(2)],
       rest |-> "POST /"] }

\* Static::new(ext): the handle stored in the map.
StaticNew(a) == Entry(a)

\* Deref for Static<T>: self.0, the referenced static's value.
Deref(mem, a) == mem[a].val

\* Extensions::insert: overwrites the entry under the key, leaves the rest.
ExtInsert(e, k, v) == [e EXCEPT ![k] = v]

\* Extensions::get::<Static<T>>().cloned()
ExtGet(e, k) == e[k]

----------------------------------------------------------------------------
(* StaticLayer and AddStatic. *)

\* StaticLayer::new(ext): T is the type of the referenced static.
StaticLayerNew(a) == [T |-> StaticMemory[a].ty, ext |-> a]

\* AddStatic::new(inner, ext), as a stack: the new service is outermost.
AddStaticNew(inner, layer) == <<[T |-> layer.T, ext |-> layer.ext]>> \o inner

\* StaticLayer::layer(&self, inner)
StaticLayerLayer(layer, inner) == AddStaticNew(inner, layer)

\* Faults of AddStatic::call's insertion: it forwards the request as it came;
\* it keeps an entry that is already there; it forwards a fresh map that
\* holds its own entry only.
AddStaticInsertNothing(s, e) == e
AddStaticInsertIfAbsent(s, e) ==
    IF e[StaticKey(s.T)].some THEN e ELSE ExtInsert(e, StaticKey(s.T), StaticNew(s.ext))
AddStaticInsertFresh(s, e) == ExtInsert(EmptyExt, StaticKey(s.T), StaticNew(s.ext))

\* What AddStatic::call does to the request before it forwards it.
AddStaticInsert(s, e) == ExtInsert(e, StaticKey(s.T), StaticNew(s.ext))

\* The request AddStatic::call hands to the inner service.
AddStaticForward(s, req) == [req EXCEPT !.extensions = AddStaticInsert(s, req.extensions)]

\* What AddStatic::call returns for the inner service's future.
AddStaticFuture(inner) == inner

\* A fault of AddStatic::poll_ready: it answers Ready without asking.
AddStaticPollReadyAlways(inner) == "Ready"

\* What AddStatic::poll_ready returns for the inner service's poll_ready.
AddStaticPollReady(inner) == inner

\* How often AddStatic::call invokes the inner service's call.
AddStaticInnerCalls == 1

\* poll_ready of the stack s; h is what the handler's service answers.
RECURSIVE StackPollReady(_, _)
StackPollReady(s, h) ==
    IF s = <<>> THEN h ELSE AddStaticPollReady(StackPollReady(Tail(s), h))

\* The future call of the stack s returns; h is the handler's future.
RECURSIVE StackFuture(_, _)
StackFuture(s, h) ==
    IF s = <<>> THEN h ELSE AddStaticFuture(StackFuture(Tail(s), h))

\* call of the stack s with request req: the request each service receives,
\* outermost first, the handler's last.
RECURSIVE StackCall(_, _)
StackCall(s, req) ==
    IF s = <<>> THEN <<req>>
    ELSE <<req>> \o StackCall(Tail(s), AddStaticForward(Head(s), req))

\* How often the call of each service of the stack s is invoked when the
\* outermost one is invoked n times.
RECURSIVE StackCallCounts(_, _)
StackCallCounts(s, n) ==
    IF s = <<>> THEN <<n>>
    ELSE <<n>> \o StackCallCounts(Tail(s), n * AddStaticInnerCalls)

----------------------------------------------------------------------------
(* Static::from_request_parts. *)

\* A fault of the build test: cfg!(debug_assertions) taken along with cfg!(test).
CfgTestOrDebug(b) == b \in {"test", "debug"}

CfgTest(b) == b = "test"

Ok(a) == [tag |-> "Ok", ref |-> a, status |-> 0, msg |-> ""]
Rejection(status, msg) == [tag |-> "Err", ref |-> 0, status |-> status, msg |-> msg]
Panic(T) == [tag |-> "Panic", ref |-> 0, status |-> 0, msg |-> T]

\* Faults of the extractor: the rejection names the type; the entry is taken
\* out of the map (remove for get).
StaticFromRequestPartsLeaky(e, T, b) ==
    LET value == ExtGet(e, StaticKey(T)) IN
    IF value.some
    THEN [out |-> Ok(value.ref), exts |-> e, errors |-> {}]
    ELSE IF CfgTest(b)
         THEN [out |-> Panic(T), exts |-> e, errors |-> {}]
         ELSE [out |-> Rejection(INTERNAL_SERVER_ERROR, T),
               exts |-> e, errors |-> {StaticKey(T)}]
StaticFromRequestPartsRemove(e, T, b) ==
    LET value == ExtGet(e, StaticKey(T)) IN
    IF value.some
    THEN [out |-> Ok(value.ref), exts |-> [e EXCEPT ![StaticKey(T)] = NoEntry],
          errors |-> {}]
    ELSE IF CfgTest(b)
         THEN [out |-> Panic(T), exts |-> e, errors |-> {}]
         ELSE [out |-> Rejection(INTERNAL_SERVER_ERROR, "Unknown error occurred!"),
               exts |-> e, errors |-> {StaticKey(T)}]

\* The outcome, the extensions left behind, and the tracing::error! events.
StaticFromRequestParts(e, T, b) ==
    LET value == ExtGet(e, StaticKey(T)) IN
    IF value.some
    THEN [out |-> Ok(value.ref), exts |-> e, errors |-> {}]
    ELSE IF CfgTest(b)
         THEN [out |-> Panic(T), exts |-> e, errors |-> {}]
         ELSE [out |-> Rejection(INTERNAL_SERVER_ERROR, "Unknown error occurred!"),
               exts |-> e, errors |-> {StaticKey(T)}]

----------------------------------------------------------------------------
(* Body<T>::from_request, for a T with two validated fields:               *)
(*   age: i64, #[validate(range(min = 0))]                                 *)
(*   name: String, #[validate(length(min = 1))]                            *)
(* The request body is a token sequence; integers and strings are literals *)
(* that the deserializer has to decode.                                    *)

IntLits == {"-1", "0", "1"}
StrLits == {"''", "'ab'"}
FieldNames == {"age", "name"}

IntOf(t) == IF t = "-1" THEN -1 ELSE IF t = "0" THEN 0 ELSE 1
StrOf(t) == IF t = "''" THEN "" ELSE "ab"
StrLen(v) == IF v = "" THEN 0 ELSE 2

\* The text of a request body: the fields given (absent: "-"), and whether
\* the object is closed.
BodyText(a, n, closed) ==
    <<"{">> \o (IF a = "-" THEN <<>> ELSE <<"age", a>>)
            \o (IF n = "-" THEN <<>> ELSE <<"name", n>>)
            \o (IF closed THEN <<"}">> ELSE <<>>)

BodyReqs ==
    { [json |-> c, text |-> BodyText(a, n, closed)] :
        c \in BOOLEAN, a \in {"-", "-1", "0", "1", "'ab'"}, n \in {"-", "''", "'ab'"},
        closed \in BOOLEAN }

NoBodyReq == [json |-> FALSE, text |-> <<>>]

NoValue == [age |-> 0, name |-> ""]
NoErrorBody == [kind |-> "", detail |-> "", fields |-> {}]

\* serde_json syntax: an object of key, literal pairs.
IsJsonObject(t) ==
    /\ Len(t) >= 2
    /\ t[1] = "{"
    /\ t[Len(t)] = "}"
    /\ Len(t) % 2 = 0
    /\ \A i \in 2..(Len(t) - 1) :
          IF i % 2 = 0 THEN t[i] \in FieldNames ELSE t[i] \in IntLits \cup StrLits

\* The literal given for field f in the object t, "-" if there is none.
FieldLit(t, f) ==
    IF \E i \in 2..(Len(t) - 1) : i % 2 = 0 /\ t[i] = f
    THEN t[(CHOOSE i \in 2..(Len(t) - 1) : i % 2 = 0 /\ t[i] = f) + 1]
    ELSE "-"

\* Json::<Body<T>>::from_request: the content type, the syntax, then T's shape.
JsonFromRequest(req) ==
    IF ~req.json
    THEN [ok |-> FALSE, rej |-> "MissingJsonContentType", val |-> NoValue]
    ELSE IF ~IsJsonObject(req.text)
    THEN [ok |-> FALSE, rej |-> "JsonSyntaxError", val |-> NoValue]
    ELSE IF FieldLit(req.text, "age") \notin IntLits \/ FieldLit(req.text, "name") \notin StrLits
    THEN [ok |-> FALSE, rej |-> "JsonDataError", val |-> NoValue]
    ELSE [ok |-> TRUE, rej |-> "",
          val |-> [age |-> IntOf(FieldLit(req.text, "age")),
                   name |-> StrOf(FieldLit(req.text, "name"))]]

\* Validate::validate: the ValidationErrors, as (field, rule) pairs.
Validate(x) ==
    (IF x.age < 0 THEN {<<"age", "range">>} ELSE {})
    \cup (IF StrLen(x.name) < 1 THEN {<<"name", "length">>} ELSE {})

\* BodyError::json_error and BodyError::validate_error of T.
JsonError(rej) == [kind |-> "json", detail |-> rej, fields |-> {}]
ValidateError(errs) == [kind |-> "validation", detail |-> "", fields |-> errs]

BodyOk(x) == [tag |-> "Ok", value |-> x, status |-> 0, body |-> NoErrorBody]
BodyErr(status, b) == [tag |-> "Err", value |-> NoValue, status |-> status, body |-> b]

\* Faults of Body::from_request: the JSON rejection's own status is passed
\* on (422 for a data error, 415 for a missing content type); the result of
\* validate is dropped; the value returned is not the one deserialized.
JsonRejectionStatus(rej) ==
    IF rej = "JsonDataError" THEN 422
    ELSE IF rej = "MissingJsonContentType" THEN 415 ELSE BAD_REQUEST
BodyFromRequestRejectionStatus(req) ==
    LET j == JsonFromRequest(req) IN
    IF ~j.ok
    THEN [result |-> BodyErr(JsonRejectionStatus(j.rej), JsonError(j.rej)),
          called |-> <<"Json::from_request", "json_error">>]
    ELSE LET errs == Validate(j.val) IN
         IF errs # {}
         THEN [result |-> BodyErr(BAD_REQUEST, ValidateError(errs)),
               called |-> <<"Json::from_request", "validate", "validate_error">>]
         ELSE [result |-> BodyOk(j.val),
               called |-> <<"Json::from_request", "validate">>]
BodyFromRequestUnchecked(req) ==
    LET j == JsonFromRequest(req) IN
    IF ~j.ok
    THEN [result |-> BodyErr(BAD_REQUEST, JsonError(j.rej)),
          called |-> <<"Json::from_request", "json_error">>]
    ELSE [result |-> BodyOk(j.val),
          called |-> <<"Json::from_request", "validate">>]
BodyFromRequestDefault(req) ==
    LET j == JsonFromRequest(req) IN
    IF ~j.ok
    THEN [result |-> BodyErr(BAD_REQUEST, JsonError(j.rej)),
          called |-> <<"Json::from_request", "json_error">>]
    ELSE LET errs == Validate(j.val) IN
         IF errs # {}
         THEN [result |-> BodyErr(BAD_REQUEST, ValidateError(errs)),
               called |-> <<"Json::from_request", "validate", "validate_error">>]
         ELSE [result |-> BodyOk(NoValue),
               called |-> <<"Json::from_request", "validate">>]

\* Body::from_request: what it returns, and the calls it makes, in order.
BodyFromRequest(req) ==
    LET j == JsonFromRequest(req) IN
    IF ~j.ok
    THEN [result |-> BodyErr(BAD_REQUEST, JsonError(j.rej)),
          called |-> <<"Json::from_request", "json_error">>]
    ELSE LET errs == Validate(j.val) IN
         IF errs # {}
         THEN [result |-> BodyErr(BAD_REQUEST, ValidateError(errs)),
               called |-> <<"Json::from_request", "validate", "validate_error">>]
         ELSE [result |-> BodyOk(j.val),
               called |-> <<"Json::from_request", "validate">>]

NoBodyRes == [result |-> BodyErr(0, NoErrorBody), called |-> <<>>]

----------------------------------------------------------------------------
(* The injector's state machine. *)

PollResults == {"Ready", "Pending", "Error"}
HandlerResults == {"Response", "Error"}

NoPoll == [inner |-> "None", outer |-> "None"]
NoResp == [inner |-> "None", outer |-> "None"]

InitInjector ==
    /\ build \in Builds
    /\ phase = "build"
    /\ svc = <<>>
    /\ statics = StaticMemory
    /\ rstate = [r \in Reqs |-> "idle"]
    /\ lastPoll = [r \in Reqs |-> NoPoll]
    /\ trace = [r \in Reqs |-> <<>>]
    /\ calls = [r \in Reqs |-> <<>>]
    /\ ext = [r \in Reqs |-> EmptyExt]
    /\ xlog = [r \in Reqs |-> <<>>]
    /\ resp = [r \in Reqs |-> NoResp]

InitBody ==
    /\ bstate = [r \in Reqs |-> "idle"]
    /\ breq = [r \in Reqs |-> NoBodyReq]
    /\ bres = [r \in Reqs |-> NoBodyRes]

Init == InitInjector /\ InitBody

AtHandler(r) == rstate[r] = "called"

RECURSIVE SumLen(_, _)
SumLen(f, S) ==
    IF S = {} THEN 0
    ELSE LET r == CHOOSE x \in S : TRUE IN Len(f[r]) + SumLen(f, S \ {r})

\* ServiceBuilder::layer / Layer::layer: wrap the stack in one more AddStatic.
WrapLayer(a) ==
    /\ phase = "build"
    /\ Len(svc) < MaxLayers
    /\ svc' = StaticLayerLayer(StaticLayerNew(a), svc)
    /\ UNCHANGED <<build, phase, statics, rstate, lastPoll, trace, calls, ext, xlog, resp>>
    /\ UNCHANGED bvars

\* The stack is handed to the server.
Serve ==
    /\ phase = "build"
    /\ phase' = "serve"
    /\ UNCHANGED <<build, svc, statics, rstate, lastPoll, trace, calls, ext, xlog, resp>>
    /\ UNCHANGED bvars

\* The caller of request r polls the outermost service until it answers
\* Ready or Error; h is what the handler's service answers.
PollReady(r, h) ==
    /\ phase = "serve"
    /\ rstate[r] = "idle"
    /\ lastPoll[r].outer \in {"None", "Pending"}
    /\ lastPoll' = [lastPoll EXCEPT ![r] = [inner |-> h, outer |-> StackPollReady(svc, h)]]
    /\ UNCHANGED <<build, phase, svc, statics, rstate, trace, calls, ext, xlog, resp>>
    /\ UNCHANGED bvars

\* The caller, having seen Ready, calls the outermost service with request
\* req: every AddStatic::call inserts and calls its inner service, down to
\* the handler.
Call(r, req) ==
    /\ phase = "serve"
    /\ rstate[r] = "idle"
    /\ lastPoll[r].outer = "Ready"
    /\ rstate' = [rstate EXCEPT ![r] = "called"]
    /\ trace' = [trace EXCEPT ![r] = StackCall(svc, req)]
    /\ calls' = [calls EXCEPT ![r] = StackCallCounts(svc, 1)]
    /\ ext' = [ext EXCEPT ![r] = StackCall(svc, req)[Len(svc) + 1].extensions]
    /\ UNCHANGED <<build, phase, svc, statics, lastPoll, xlog, resp>>
    /\ UNCHANGED bvars

\* The handler extracts Static<T> from the request it was called with.
Extract(r, T) ==
    /\ AtHandler(r)
    /\ SumLen(xlog, Reqs) < MaxExtract
    /\ LET res == StaticFromRequestParts(ext[r], T, build) IN
       /\ xlog' = [xlog EXCEPT ![r] =
                     Append(@, [ty |-> T, had |-> ext[r][StaticKey(T)].some,
                                out |-> res.out, errors |-> res.errors])]
       /\ ext' = [ext EXCEPT ![r] = res.exts]
       /\ rstate' = [rstate EXCEPT ![r] = IF res.out.tag = "Panic" THEN "panicked" ELSE @]
    /\ UNCHANGED <<build, phase, svc, statics, lastPoll, trace, calls, resp>>
    /\ UNCHANGED bvars

\* The handler's future resolves; every AddStatic returned that same future.
\* The request, and its extensions with it, is dropped.
Respond(r, h) ==
    /\ AtHandler(r)
    /\ resp' = [resp EXCEPT ![r] = [inner |-> h, outer |-> StackFuture(svc, h)]]
    /\ rstate' = [rstate EXCEPT ![r] = "done"]
    /\ lastPoll' = [lastPoll EXCEPT ![r] = NoPoll]
    /\ trace' = [trace EXCEPT ![r] = <<>>]
    /\ calls' = [calls EXCEPT ![r] = <<>>]
    /\ ext' = [ext EXCEPT ![r] = EmptyExt]
    /\ xlog' = [xlog EXCEPT ![r] = <<>>]
    /\ UNCHANGED <<build, phase, svc, statics>>
    /\ UNCHANGED bvars

Next ==
    \/ \E a \in Addrs : WrapLayer(a)
    \/ Serve
    \/ \E r \in Reqs, h \in PollResults : PollReady(r, h)
    \/ \E r \in Reqs, req \in InitialRequests : Call(r, req)
    \/ \E r \in Reqs, T \in Types : Extract(r, T)
    \/ \E r \in Reqs, h \in HandlerResults : Respond(r, h)

Spec == Init /\ [][Next]_vars

----------------------------------------------------------------------------
(* The body extractor's state machine. *)

\* Body::from_request is called with req and awaits Json::from_request.
BodyBegin(r, req) ==
    /\ bstate[r] = "idle"
    /\ bstate' = [bstate EXCEPT ![r] = "awaiting"]
    /\ breq' = [breq EXCEPT ![r] = req]
    /\ UNCHANGED bres
    /\ UNCHANGED ivars

\* The body has been read: the rest of Body::from_request runs to its return.
BodyResume(r) ==
    /\ bstate[r] = "awaiting"
    /\ bstate' = [bstate EXCEPT ![r] = "done"]
    /\ bres' = [bres EXCEPT ![r] = BodyFromRequest(breq[r])]
    /\ UNCHANGED breq
    /\ UNCHANGED ivars

InitBodySpec == Init /\ build = "release"

NextBody ==
    \/ \E r \in Reqs, req \in BodyReqs : BodyBegin(r, req)
    \/ \E r \in Reqs : BodyResume(r)

SpecBody == InitBodySpec /\ [][NextBody]_vars

----------------------------------------------------------------------------
(* Properties of the injector, checked under Spec. *)

\* The requests whose handler has been called.
Handled == {r \in Reqs : rstate[r] \in {"called", "panicked"}}

\* The layers of the stack that insert under Static<T>, by depth.
LayersOf(T) == {i \in 1..Len(svc) : svc[i].T = T}

\* Layer i is the last of its type the request passes before the handler.
Innermost(i) == \A j \in LayersOf(svc[i].T) : j <= i

OkOf(a) == [tag |-> "Ok", ref |-> a, status |-> 0, msg |-> ""]
Rejection500 == [tag |-> "Err", ref |-> 0, status |-> 500, msg |-> "Unknown error occurred!"]

\* C1, as stated: whatever layer of type V a request passed through, every
\* extraction of Static<V> in the handler succeeds with that layer's value.
C1_AnyLayerRoundTrip ==
    \A r \in Handled : \A i \in 1..Len(svc) : \A k \in 1..Len(xlog[r]) :
        xlog[r][k].ty = svc[i].T => xlog[r][k].out = OkOf(svc[i].ext)

\* C1, amended: for every layer of type V that has no other layer of type V
\* between it and the handler, every extraction of Static<V> in the handler,
\* by any request, succeeds with a handle to that layer's static, which
\* dereferences to the value the layer was built around.
C1_RoundTrip ==
    \A r \in Handled : \A i \in 1..Len(svc) : \A k \in 1..Len(xlog[r]) :
        (Innermost(i) /\ xlog[r][k].ty = svc[i].T) =>
            /\ xlog[r][k].out = OkOf(svc[i].ext)
            /\ Deref(statics, xlog[r][k].out.ref) = StaticMemory[svc[i].ext].val

\* Two requests in the handler at once behind a stack of two layers, each
\* having extracted a layer's value.
C1_Witness ==
    /\ Len(svc) = 2
    /\ \E r1, r2 \in Reqs :
          /\ r1 # r2
          /\ rstate[r1] = "called" /\ rstate[r2] = "called"
          /\ trace[r1][1] # trace[r2][1]
          /\ Len(xlog[r1]) = 1 /\ Len(xlog[r2]) = 1
          /\ xlog[r1][1].out.tag = "Ok" /\ xlog[r2][1].out.tag = "Ok"
          /\ LayersOf(xlog[r1][1].ty) # {} /\ LayersOf(xlog[r2][1].ty) # {}

\* C2, as stated: an extraction that finds no entry returns the rejection
\* (500, "Unknown error occurred!").
C2_AlwaysRejection ==
    \A r \in Reqs : \A k \in 1..Len(xlog[r]) :
        ~xlog[r][k].had => xlog[r][k].out = Rejection500

\* C2, amended: an extraction that finds no entry never returns Ok; unless
\* the crate is built for test, where it panics, it returns the rejection
\* (500, "Unknown error occurred!"), the same pair whatever the type.
C2_Rejection ==
    \A r \in Reqs : \A k \in 1..Len(xlog[r]) :
        ~xlog[r][k].had =>
            /\ xlog[r][k].out.tag # "Ok"
            /\ xlog[r][k].out.tag = "Err" => xlog[r][k].out = Rejection500
            /\ build # "test" => xlog[r][k].out = Rejection500

\* One request was refused two types, with the same rejection.
C2_Witness ==
    \E r \in Reqs :
        /\ Len(xlog[r]) = 2
        /\ xlog[r][1].ty # xlog[r][2].ty
        /\ ~xlog[r][1].had /\ ~xlog[r][2].had
        /\ xlog[r][1].out = Rejection500 /\ xlog[r][2].out = Rejection500

\* C6: after the layers of one type V the request passed through, the
\* handler's entry for Static<V> and every extraction of it hold the value
\* of the last of them; of two stacked, the one closest to the handler.
C6_Shadowing ==
    \A r \in Handled : \A T \in Types :
        LayersOf(T) # {} =>
            LET last == CHOOSE i \in LayersOf(T) : \A j \in LayersOf(T) : j <= i IN
            /\ trace[r][Len(svc) + 1].extensions[StaticKey(T)] =
                  [some |-> TRUE, ref |-> svc[last].ext]
            /\ \A k \in 1..Len(xlog[r]) :
                  xlog[r][k].ty = T => xlog[r][k].out = OkOf(svc[last].ext)

\* A request passed the layer around static 1 and then the one around
\* static 2, both of type Data, and the handler extracted static 2.
C6_Witness ==
    /\ Len(svc) = 2
    /\ svc[1] = [T |-> "Data", ext |-> 1]
    /\ svc[2] = [T |-> "Data", ext |-> 2]
    /\ \E r \in Reqs :
          /\ rstate[r] = "called"
          /\ Len(xlog[r]) >= 1
          /\ xlog[r][1].ty = "Data"
          /\ xlog[r][1].out = OkOf(2)

\* The stack with its layers in the opposite order.
RECURSIVE Reversed(_)
Reversed(s) == IF s = <<>> THEN <<>> ELSE Reversed(Tail(s)) \o <<Head(s)>>

DistinctTypes == \A i, j \in 1..Len(svc) : i # j => svc[i].T # svc[j].T

\* C7: behind layers of distinct types the handler's request carries every
\* layer's entry, each extraction yields its layer's value wherever the layer
\* stands and whenever the extraction is made, and the request the handler
\* gets is the one it would get with the layers in the opposite order.
C7_Independence ==
    \A r \in Handled :
        DistinctTypes =>
            /\ \A i \in 1..Len(svc) :
                  /\ ext[r][StaticKey(svc[i].T)] = [some |-> TRUE, ref |-> svc[i].ext]
                  /\ \A k \in 1..Len(xlog[r]) :
                        xlog[r][k].ty = svc[i].T => xlog[r][k].out = OkOf(svc[i].ext)
            /\ trace[r][Len(svc) + 1] =
                  StackCall(Reversed(svc), trace[r][1])[Len(svc) + 1]

\* Behind a B64 layer around a Data layer, a request's handler extracted the
\* B64 and then the Data value.
C7_Witness ==
    /\ Len(svc) = 2
    /\ svc[1].T = "B64" /\ svc[2].T = "Data"
    /\ \E r \in Reqs :
          /\ rstate[r] = "called"
          /\ Len(xlog[r]) = 2
          /\ xlog[r][1] = [ty |-> "B64", had |-> TRUE, out |-> OkOf(3), errors |-> {}]
          /\ xlog[r][2].ty = "Data" /\ xlog[r][2].out = OkOf(svc[2].ext)

\* C8: poll_ready answers what the inner service answers; every service of
\* the stack, and the handler, is called once per request, with the request
\* its outer service received changed in that service's Static entry only,
\* which is then present; the response or error is the handler's; the
\* statics are as they were.
C8_Delegation ==
    /\ statics = StaticMemory
    /\ \A r \in Reqs :
          /\ lastPoll[r].outer = lastPoll[r].inner
          /\ resp[r].outer = resp[r].inner
    /\ \A r \in Handled :
          /\ Len(calls[r]) = Len(svc) + 1
          /\ \A d \in 1..(Len(svc) + 1) : calls[r][d] = 1
          /\ Len(trace[r]) = Len(svc) + 1
          /\ \A i \in 1..Len(svc) :
                /\ trace[r][i + 1].extensions[StaticKey(svc[i].T)] =
                      [some |-> TRUE, ref |-> svc[i].ext]
                /\ \A k \in Keys \ {StaticKey(svc[i].T)} :
                      trace[r][i + 1].extensions[k] = trace[r][i].extensions[k]
                /\ trace[r][i + 1].rest = trace[r][i].rest

\* Behind two layers: a request that got the handler's error while another
\* is in the handler with the foreign entry it came with.
C8_Witness ==
    /\ Len(svc) = 2
    /\ \E r1, r2 \in Reqs :
          /\ rstate[r1] = "done" /\ resp[r1].outer = "Error"
          /\ rstate[r2] = "called"
          /\ trace[r2][3].extensions[OtherKey] = OtherEntry

C10_NonDestructive ==
    \A r \in Handled :
        /\ ext[r] = trace[r][Len(svc) + 1].extensions
        /\ \A k1, k2 \in 1..Len(xlog[r]) :
              xlog[r][k1].ty = xlog[r][k2].ty =>
                  /\ xlog[r][k1].out = xlog[r][k2].out
                  /\ xlog[r][k1].had = xlog[r][k2].had

\* A request's handler extracted one type twice, successfully.
C10_Witness ==
    \E r \in Reqs :
        /\ Len(xlog[r]) = 2
        /\ xlog[r][1].ty = xlog[r][2].ty
        /\ xlog[r][1].out.tag = "Ok"
        /\ xlog[r][2].out.tag = "Ok"

----------------------------------------------------------------------------
(* Properties of the body extractor, checked under SpecBody. *)

Returned == {r \in Reqs : bstate[r] = "done"}

Called(r) == {bres[r].called[i] : i \in 1..Len(bres[r].called)}

\* The request deserializes: JSON content type, a closed object, an integer
\* age and a string name.
Deserializes(req) ==
    /\ req.json
    /\ \E a \in IntLits, n \in StrLits : req.text = <<"{", "age", a, "name", n, "}">>

\* The (field, rule) pairs the request's value violates.
Violations(req) ==
    {p \in {<<"age", "range">>, <<"name", "length">>} :
        \/ p[1] = "age" /\ req.text[3] = "-1"
        \/ p[1] = "name" /\ req.text[5] = "''"}

\* C3: a body that does not deserialize is answered (400, json_error of the
\* rejection), and neither validate nor validate_error is called; whenever
\* validate is called, deserialization was attempted first, and json_error
\* and validate_error are never both called.
C3_DeserializeFailure ==
    \A r \in Returned :
        /\ ~Deserializes(breq[r]) =>
              /\ bres[r].result.tag = "Err"
              /\ bres[r].result.status = 400
              /\ bres[r].result.body.kind = "json"
              /\ bres[r].result.body = JsonError(JsonFromRequest(breq[r]).rej)
              /\ bres[r].result.body.detail \in
                    {"MissingJsonContentType", "JsonSyntaxError", "JsonDataError"}
              /\ "validate" \notin Called(r)
              /\ "validate_error" \notin Called(r)
        /\ bres[r].called[1] = "Json::from_request"
        /\ ~("json_error" \in Called(r) /\ "validate_error" \in Called(r))

\* A body with a string for the age was answered with the data error.
C3_Witness ==
    \E r \in Returned :
        /\ breq[r] = [json |-> TRUE, text |-> <<"{", "age", "'ab'", "name", "'ab'", "}">>]
        /\ bres[r].result.status = 400
        /\ bres[r].result.body.detail = "JsonDataError"

\* C4: a body that deserializes and violates rules is answered
\* (400, validate_error of the failures), the failures being exactly the
\* (field, rule) pairs violated, and no value is returned.
C4_ValidationFailure ==
    \A r \in Returned :
        (Deserializes(breq[r]) /\ Violations(breq[r]) # {}) =>
            /\ bres[r].result.tag = "Err"
            /\ bres[r].result.value = NoValue
            /\ bres[r].result.status = 400
            /\ bres[r].result.body =
                  [kind |-> "validation", detail |-> "", fields |-> Violations(breq[r])]
            /\ bres[r].called = <<"Json::from_request", "validate", "validate_error">>

\* The body {"age": -1, "name": ""} was answered with both failures.
C4_Witness ==
    \E r \in Returned :
        /\ breq[r] = [json |-> TRUE, text |-> <<"{", "age", "-1", "name", "''", "}">>]
        /\ bres[r].result.body.fields = {<<"age", "range">>, <<"name", "length">>}

\* C5: a body that deserializes and violates no rule yields Ok with the
\* deserialized value, and neither json_error nor validate_error is called.
C5_Success ==
    \A r \in Returned :
        (Deserializes(breq[r]) /\ Violations(breq[r]) = {}) =>
            /\ bres[r].result.tag = "Ok"
            /\ bres[r].result.value =
                  [age |-> IF breq[r].text[3] = "0" THEN 0 ELSE 1, name |-> "ab"]
            /\ bres[r].result.value = JsonFromRequest(breq[r]).val
            /\ "json_error" \notin Called(r)
            /\ "validate_error" \notin Called(r)

\* The bodies {"age": 1, "name": "ab"} and {"age": 0, "name": "ab"} were
\* both returned to the handler.
C5_Witness ==
    \E r1, r2 \in Returned :
        /\ breq[r1] = [json |-> TRUE, text |-> <<"{", "age", "1", "name", "'ab'", "}">>]
        /\ bres[r1].result.tag = "Ok"
        /\ bres[r1].result.value.age = 1
        /\ breq[r2] = [json |-> TRUE, text |-> <<"{", "age", "0", "name", "'ab'", "}">>]
        /\ bres[r2].result.tag = "Ok"
        /\ bres[r2].result.value.age = 0

====
